---- MODULE Spec2Model ----
(***************************************************************************)
(* Model of jrubin.io/nr: the Unicode word reader (package wordreader) and *)
(* the word-sequence counter built on it (package wordseq), with the list  *)
(* of readers that run (package main) builds from its arguments.           *)
(*                                                                         *)
(* Strings are sequences of code points (integers).  Go compares strings   *)
(* bytewise, which for valid UTF-8 is the code-point order used here.      *)
(* The input is valid UTF-8 without U+FFFD, so that the byte-wise scan of  *)
(* getLastRune/lastRune visits exactly the code points of the buffer.      *)
(***************************************************************************)
EXTENDS Integers, Sequences, FiniteSets, TLC

VARIABLES
    input,        \* the code points the underlying io.Reader delivers
    errAt,        \* the source fails before delivering code point errAt+1 (-1: never)
    sticky,       \* TRUE: the source keeps failing; FALSE: it fails once and goes on
    pos,          \* bufio.Reader: code points consumed so far
    errFired,     \* the source has already returned its error once
    reads,        \* history: ReadRune calls made on the source's reader
    Buf,          \* wordReader.Buf
    pc,           \* "Process" | "ReadWord" | "returned" | "extract" | "done"
                  \* (run: "run" | "MultiReader" | "runFailed";
                  \*  the switch alone: "switch" | "decided")
    word,         \* word returned by the last ReadWord call
    err,          \* error returned by the last ReadWord call
    emitted,      \* history: the words ReadWord has returned with a nil error
    srcFailed,    \* history: some read of the source failed (not end-of-stream)
    peekFailed,   \* history: the read of the source that failed was a lookahead
    extra,        \* history: ReadWord calls made after a call that returned an error
    wr,           \* Process: the WordReader has been created
    seqSize,      \* Process argument
    topN,         \* Process argument
    arrays,       \* backing arrays of the window slice, by allocation number
    window,       \* the window slice: [arr, off, len, cap] (arr = 0: not allocated)
    stream,       \* history: the normalized words appended to the window
    seqs,         \* the Sequence objects, by allocation number
    cache,        \* map key -> Sequence
    h,            \* seqHeap: map slot -> Sequence (a function on 0..Len-1)
    ret,          \* the slice Process is building (Sequence numbers)
    result,       \* what Process returned: [nil, items]
    perr,         \* the error Process returned
    args,         \* run: the filename arguments
    exists,       \* the filenames os.Open can open
    argi,         \* run: arguments the loop has gone through
    readers,      \* run: the readers collected so far
    opened,       \* history: the filenames passed to os.Open
    rerr,         \* the error run returned
    query,        \* the switch alone: [second, last, lit, r, next] it is given
    decision      \* the switch alone: "keep" | "boundary" ("none": not taken)

rdVars   == <<input, errAt, sticky, pos, errFired, reads, Buf, word, err,
              emitted, srcFailed, peekFailed>>
procVars == <<wr, seqSize, topN, arrays, window, stream, seqs, cache, h, ret,
              result, perr>>
runVars  == <<args, exists, argi, readers, opened, rerr>>
swVars   == <<query, decision>>
vars     == <<rdVars, pc, extra, procVars, runVars, swVars>>

-----------------------------------------------------------------------------
(* Code points *)

carriageReturn == 13
lineFeed       == 10
doubleQuote    == 34
singleQuote    == 39
zwj            == 8205
RuneError      == 65533

NUL            == 0
Space          == 32

(* Word_Break property tables (tables.go), restricted to the code points   *)
(* the model feeds: one or two representatives of every class.             *)
tableALetter           == {65, 66, 97, 98}      \* A B a b
tableHebrewLetter      == {1488}                \* alef
tableMidLetter         == {58}                  \* :
tableMidNum            == {44}                  \* ,
tableMidNumLet         == {46}                  \* .
tableNumeric           == {49}                  \* 1
tableKatakana          == {12450}               \* katakana a
tableExtendNumLet      == {95}                  \* _
tableEModifier         == {127995}              \* U+1F3FB
tableEBase             == {128077}              \* U+1F44D
tableEBaseGAZ          == {128104}              \* U+1F468
tableExtend            == {769}                 \* U+0301
tableFormat            == {173}                 \* U+00AD
tableGlueAfterZWJ      == {10084}               \* U+2764
tableNewline           == {11, 12, 133}         \* VT FF NEL
tableRegionalIndicator == {127482, 127480}      \* U+1F1FA U+1F1F8

ahLetter(r)     == r \in tableALetter \cup tableHebrewLetter
midLetter(r)    == r \in tableMidLetter
midnum(r)       == r \in tableMidNum
midNumLetQ(r)   == IF r = singleQuote THEN TRUE ELSE r \in tableMidNumLet
numeric(r)      == r \in tableNumeric
hebrew(r)       == r \in tableHebrewLetter
katakana(r)     == r \in tableKatakana
extendNumLet(r) == r \in tableExtendNumLet
eModifier(r)    == r \in tableEModifier
eBase(r)        == r \in tableEBase
ebg(r)          == r \in tableEBaseGAZ
extend(r)       == r \in tableExtend
format(r)       == r \in tableFormat
glueAfterZWJ(r) == r \in tableGlueAfterZWJ
newline(r)      == r \in tableNewline
ri(r)           == r \in tableRegionalIndicator

-----------------------------------------------------------------------------
(* The buffered reader over the source *)

ErrNil     == "nil"
ErrEOF     == "EOF"
ErrRead    == "read error"
ErrInvalid == "invalid argument"
ErrNotExist == "no such file or directory"

\* the source fails at this read
SourceFails(p, fired) == errAt = p /\ (sticky \/ ~fired)

\* bufio.Reader.ReadRune: the next code point, or the source's error, which
\* it hands out once (readErr clears it) so that the next call reads the
\* source again.
ReadRune(p, fired) ==
    IF SourceFails(p, fired)
    THEN [r |-> RuneError, err |-> ErrRead, pos |-> p, fired |-> TRUE]
    ELSE IF p >= Len(input)
    THEN [r |-> RuneError, err |-> ErrEOF, pos |-> p, fired |-> fired]
    ELSE [r |-> input[p + 1], err |-> ErrNil, pos |-> p + 1, fired |-> fired]

\* mutant: the lookahead is not put back
UnreadRune_forgotten(p) == p

\* bufio.Reader.UnreadRune after a successful ReadRune
UnreadRune(p) == p - 1

peekRune(p, fired) ==
    LET x == ReadRune(p, fired) IN
    IF x.err # ErrNil
    THEN [r |-> RuneError, pos |-> x.pos, fired |-> x.fired,
          failed |-> x.err = ErrRead]
    ELSE [r |-> x.r, pos |-> UnreadRune(x.pos), fired |-> x.fired,
          failed |-> FALSE]

-----------------------------------------------------------------------------
(* Lookback *)

getLastRune(data) == IF Len(data) = 0 THEN RuneError ELSE data[Len(data)]

RECURSIVE lastRuneScan(_, _, _)
lastRuneScan(data, i, last) ==
    IF i = 0 THEN <<last, RuneError>>
    ELSE LET r == getLastRune(SubSeq(data, 1, i)) IN
         IF r = RuneError THEN <<last, RuneError>>
         ELSE IF extend(r) \/ format(r) THEN lastRuneScan(data, i - 1, last)
         ELSE IF last = RuneError THEN lastRuneScan(data, i - 1, r)
         ELSE <<last, r>>

\* <<lastRune, lastRuneLiteral, secondToLastRune>>
lastRune(data) ==
    LET s == lastRuneScan(data, Len(data), RuneError) IN
    <<s[1], getLastRune(data), s[2]>>

-----------------------------------------------------------------------------
(* The cases of the switch in ReadWord, in the order of the source *)

\* mutant: the CR LF case is missing
WB3_absent(lit, r) == FALSE

WB3(lit, r)            == lit = carriageReturn /\ r = lineFeed
\* mutant: no boundary after Newline, CR and LF
WB3a_absent(last)      == FALSE

WB3a(last)             == newline(last) \/ last = carriageReturn \/ last = lineFeed
WB3b(r)                == newline(r) \/ r = carriageReturn \/ r = lineFeed
WB3c(last, r)          == last = zwj /\ (glueAfterZWJ(r) \/ ebg(r))
WB4(r)                 == extend(r) \/ format(r) \/ r = zwj
WB5(last, r)           == ahLetter(last) /\ ahLetter(r)
WB6(last, r, next)     == ahLetter(last) /\ (midLetter(r) \/ midNumLetQ(r)) /\ ahLetter(next)
WB7(second, last, r)   == ahLetter(second) /\ (midLetter(last) \/ midNumLetQ(last)) /\ ahLetter(r)
\* mutant: no case for a single quote after a Hebrew letter
WB7a_absent(last, r)   == FALSE

WB7a(last, r)          == hebrew(last) /\ r = singleQuote
WB7b(last, r, next)    == hebrew(last) /\ r = doubleQuote /\ hebrew(next)
\* mutant: no case for a Hebrew letter after Hebrew letter, double quote
WB7c_absent(second, last, r) == FALSE

WB7c(second, last, r)  == hebrew(second) /\ last = doubleQuote /\ hebrew(r)
WB8(last, r)           == numeric(last) /\ numeric(r)
WB9(last, r)           == ahLetter(last) /\ numeric(r)
WB10(last, r)          == numeric(last) /\ ahLetter(r)
WB11(second, last, r)  == numeric(second) /\ (midnum(last) \/ midNumLetQ(last)) /\ numeric(r)
WB12(last, r, next)    == numeric(last) /\ (midnum(r) \/ midNumLetQ(r)) /\ numeric(next)
WB13(last, r)          == katakana(last) /\ katakana(r)
WB13a(last, r)         == (ahLetter(last) \/ numeric(last) \/ katakana(last) \/ extendNumLet(last))
                          /\ extendNumLet(r)
WB13b(last, r)         == extendNumLet(last) /\ (ahLetter(r) \/ numeric(r) \/ katakana(r))
WB14(last, r)          == (eBase(last) \/ ebg(last)) /\ eModifier(r)
\* mutant: the indicator before the last one is not looked at
WB15_anyPair(second, last, r) == ri(last) /\ ri(r)

WB15(second, last, r)  == ~ri(second) /\ ri(last) /\ ri(r)

\* the case the switch takes
switchCase(last, lit, second, r, next) ==
    IF WB3(lit, r) THEN "WB3"
    ELSE IF WB3a(last) THEN "WB3a"
    ELSE IF WB3b(r) THEN "WB3b"
    ELSE IF WB3c(last, r) THEN "WB3c"
    ELSE IF WB4(r) THEN "WB4"
    ELSE IF WB5(last, r) THEN "WB5"
    ELSE IF WB6(last, r, next) THEN "WB6"
    ELSE IF WB7(second, last, r) THEN "WB7"
    ELSE IF WB7a(last, r) THEN "WB7a"
    ELSE IF WB7b(last, r, next) THEN "WB7b"
    ELSE IF WB7c(second, last, r) THEN "WB7c"
    ELSE IF WB8(last, r) THEN "WB8"
    ELSE IF WB9(last, r) THEN "WB9"
    ELSE IF WB10(last, r) THEN "WB10"
    ELSE IF WB11(second, last, r) THEN "WB11"
    ELSE IF WB12(last, r, next) THEN "WB12"
    ELSE IF WB13(last, r) THEN "WB13"
    ELSE IF WB13a(last, r) THEN "WB13a"
    ELSE IF WB13b(last, r) THEN "WB13b"
    ELSE IF WB14(last, r) THEN "WB14"
    ELSE IF WB15(second, last, r) THEN "WB15"
    ELSE "default"

\* the cases that look at nextRune
lookaheadCases == {"WB6", "WB7b", "WB12"}

\* the cases that return wr.emitWordPushRune(r); the others write r to Buf
emitCases == {"WB3a", "WB3b", "default"}

\* the case taken for code point r with lookahead next, given the buffer
caseFor(buf, r, next) ==
    LET l == lastRune(buf) IN switchCase(l[1], l[2], l[3], r, next)

\* emitWord without wr.Buf.Reset(): the buffer keeps the returned word
emitWord_noReset(buf) == [word |-> buf, Buf |-> buf]
emitWord(buf) == [word |-> buf, Buf |-> <<>>]

\* emitWordPushRune that returns the word even when it is zero-length
emitWordPushRune_noRetry(buf, r) == [word |-> buf, Buf |-> <<r>>, retry |-> FALSE]

\* retry: the word was zero-length and ReadWord is called again
emitWordPushRune(buf, r) == [word |-> buf, Buf |-> <<r>>, retry |-> Len(buf) = 0]

-----------------------------------------------------------------------------
(* ReadWord, one iteration of its loop per step *)

\* the read at the top of the loop
thisRead == ReadRune(pos, errFired)
\* the lookahead that follows it
thisPeek == peekRune(thisRead.pos, thisRead.fired)

\* err == io.EOF && wr.Buf.Len() > 0: return the last word
ReadWordLast ==
    /\ pc = "ReadWord"
    /\ thisRead.err = ErrEOF /\ Len(Buf) > 0
    /\ LET e == emitWord(Buf) IN
       /\ word' = e.word
       /\ Buf' = e.Buf
       /\ emitted' = Append(emitted, e.word)
    /\ err' = ErrNil
    /\ reads' = reads + 1
    /\ pc' = "returned"
    /\ UNCHANGED <<input, errAt, sticky, pos, errFired, srcFailed, peekFailed,
                   extra, runVars, swVars, procVars>>

\* err != nil: return "", err
ReadWordError ==
    /\ pc = "ReadWord"
    /\ thisRead.err # ErrNil
    /\ ~(thisRead.err = ErrEOF /\ Len(Buf) > 0)
    /\ word' = <<>>
    /\ err' = thisRead.err
    /\ errFired' = thisRead.fired
    /\ srcFailed' = (srcFailed \/ thisRead.err = ErrRead)
    /\ reads' = reads + 1
    /\ pc' = "returned"
    /\ UNCHANGED <<input, errAt, sticky, pos, Buf, emitted, peekFailed, extra, runVars, swVars, procVars>>

\* a case that writes r to the buffer and goes round the loop
ReadWordKeep ==
    /\ pc = "ReadWord"
    /\ thisRead.err = ErrNil
    /\ caseFor(Buf, thisRead.r, thisPeek.r) \notin emitCases
    /\ Buf' = Append(Buf, thisRead.r)
    /\ pos' = thisPeek.pos
    /\ errFired' = thisPeek.fired
    /\ srcFailed' = (srcFailed \/ thisPeek.failed)
    /\ peekFailed' = (peekFailed \/ thisPeek.failed)
    /\ reads' = reads + 2
    /\ UNCHANGED <<input, errAt, sticky, word, err, emitted, pc, extra, runVars, swVars, procVars>>

\* a case that returns wr.emitWordPushRune(r)
ReadWordEmit ==
    /\ pc = "ReadWord"
    /\ thisRead.err = ErrNil
    /\ caseFor(Buf, thisRead.r, thisPeek.r) \in emitCases
    /\ LET e == emitWordPushRune(Buf, thisRead.r) IN
       /\ Buf' = e.Buf
       /\ IF e.retry
          THEN UNCHANGED <<word, err, emitted, pc>>
          ELSE /\ word' = e.word
               /\ err' = ErrNil
               /\ emitted' = Append(emitted, e.word)
               /\ pc' = "returned"
    /\ pos' = thisPeek.pos
    /\ errFired' = thisPeek.fired
    /\ srcFailed' = (srcFailed \/ thisPeek.failed)
    /\ peekFailed' = (peekFailed \/ thisPeek.failed)
    /\ reads' = reads + 2
    /\ UNCHANGED <<input, errAt, sticky, extra, runVars, swVars, procVars>>

ReadWord == ReadWordLast \/ ReadWordError \/ ReadWordKeep \/ ReadWordEmit

-----------------------------------------------------------------------------
(* The word reader on its own: a client that calls ReadWord again and      *)
(* again, as TestWordSplitter does                                         *)

MaxLen        == 4     \* longest input of the word reader's alphabet
MaxRun        == 6     \* longest input of regional indicators and what joins them
MaxErrLen     == 3     \* longest input read from a failing source
MaxExtraCalls == 2     \* ReadWord calls made after a call that returned an error

Strings(S, n) == UNION {[1..k -> S] : k \in 0..n}

\* CR LF VT space a 1 ' U+0301 ZWJ RI
WRAlphabet  == {carriageReturn, lineFeed, 11, Space, 97, 49, singleQuote, 769, zwj, 127482}
\* RI U+0301 ZWJ a
RunAlphabet == {127482, 769, zwj, 97}
\* a space
ErrAlphabet == {97, Space}
\* a Hebrew-alef 1 : , " U+0301
LookAlphabet == {97, 1488, 49, 58, 44, doubleQuote, 769}

Sources ==
    [input : Strings(WRAlphabet, MaxLen) \cup Strings(RunAlphabet, MaxRun)
               \cup Strings(LookAlphabet, MaxLen),
     errAt : {-1}, sticky : {FALSE}]
    \cup
    {s \in [input : Strings(ErrAlphabet, MaxErrLen), errAt : 0..MaxErrLen,
            sticky : BOOLEAN] : s.errAt <= Len(s.input)}

NoResult == [nil |-> TRUE, items |-> <<>>]
NoWindow == [arr |-> 0, off |-> 0, len |-> 0, cap |-> 0]

\* New(r): a reader at the start of its source, with an empty buffer
InitReader(src) ==
    /\ input = src.input
    /\ errAt = src.errAt
    /\ sticky = src.sticky
    /\ pos = 0
    /\ errFired = FALSE
    /\ reads = 0
    /\ Buf = <<>>
    /\ word = <<>>
    /\ err = ErrNil
    /\ emitted = <<>>
    /\ srcFailed = FALSE
    /\ peekFailed = FALSE
    /\ extra = 0

InitProcessIdle ==
    /\ arrays = <<>>
    /\ window = NoWindow
    /\ stream = <<>>
    /\ seqs = <<>>
    /\ cache = <<>>
    /\ h = <<>>
    /\ ret = <<>>
    /\ result = NoResult
    /\ perr = ErrNil

\* run is not part of the execution
InitRunIdle ==
    /\ args = <<>>
    /\ exists = {}
    /\ argi = 0
    /\ readers = <<>>
    /\ opened = <<>>
    /\ rerr = ErrNil

\* the switch is not looked at alone
NoQuery == [second |-> RuneError, last |-> RuneError, lit |-> RuneError,
            r |-> RuneError, next |-> RuneError]

InitSwitchIdle ==
    /\ query = NoQuery
    /\ decision = "none"

InitWR ==
    /\ \E src \in Sources : InitReader(src)
    /\ pc = "ReadWord"
    /\ wr = TRUE
    /\ seqSize = 0
    /\ topN = 0
    /\ InitProcessIdle
    /\ InitRunIdle
    /\ InitSwitchIdle

\* the client calls ReadWord again
CallReadWord ==
    /\ pc = "returned"
    /\ err = ErrNil \/ extra < MaxExtraCalls
    /\ extra' = IF err = ErrNil THEN extra ELSE extra + 1
    /\ pc' = "ReadWord"
    /\ UNCHANGED <<rdVars, procVars, runVars, swVars>>

NextWR == ReadWord \/ CallReadWord

SpecWR == InitWR /\ [][NextWR]_vars

-----------------------------------------------------------------------------
(* package wordseq: strings, slices and the heap *)

\* string comparison a < b
RECURSIVE StrLess(_, _)
StrLess(a, b) ==
    IF b = <<>> THEN FALSE
    ELSE IF a = <<>> THEN TRUE
    ELSE IF Head(a) # Head(b) THEN Head(a) < Head(b)
    ELSE StrLess(Tail(a), Tail(b))

\* strings.Join(ws, "\x00")
RECURSIVE Join(_)
Join(ws) ==
    IF ws = <<>> THEN <<>>
    ELSE IF Len(ws) = 1 THEN ws[1]
    ELSE ws[1] \o <<NUL>> \o Join(Tail(ws))

\* mutant: the words are joined without a separator
RECURSIVE keyOf_unseparated(_)
keyOf_unseparated(ws) ==
    IF ws = <<>> THEN <<>> ELSE Head(ws) \o keyOf_unseparated(Tail(ws))

\* sha1.Sum of the joined words; the digest is taken to be free of collisions
keyOf(ws) == Join(ws)

\* unicode.IsPunct on the code points of the model: " ' ( ) , . : _
IsPunct(r) == r \in {doubleQuote, singleQuote, 40, 41, 44, 46, 58, 95}

\* a case mapping that also raises a-z
ToLower_swapCase(r) == IF r \in 65..90 THEN r + 32 ELSE IF r \in 97..122 THEN r - 32 ELSE r

\* unicode.ToLower on the code points of the model: only A-Z have a lower case
ToLower(r) == IF r \in 65..90 THEN r + 32 ELSE r

isSpace(s) ==
    s \in { <<Space>>, <<9>>, <<lineFeed>>, <<11>>, <<12>>, <<carriageReturn>>,
            <<133>>, <<160>>, <<carriageReturn, lineFeed>>,
            <<lineFeed, carriageReturn>> }

\* the loop over the runes of a word: punctuation dropped, the rest lower-cased
RECURSIVE stripLower(_)
stripLower(w) ==
    IF w = <<>> THEN <<>>
    ELSE IF IsPunct(Head(w)) THEN stripLower(Tail(w))
    ELSE <<ToLower(Head(w))>> \o stripLower(Tail(w))

\* the words a slice holds
WordsIn(arrs, sl) == SubSeq(arrs[sl.arr], sl.off + 1, sl.off + sl.len)

\* make([]string, 0, n)
makeWindow(n) == [arrs |-> << [i \in 1..n |-> <<>>] >>,
                  sl   |-> [arr |-> 1, off |-> 0, len |-> 0, cap |-> n]]

\* the capacity append gives a slice it has to reallocate
growCap(oldCap, needed) == IF needed > 2 * oldCap THEN needed ELSE 2 * oldCap

\* append(sl, w): in place while the capacity lasts, else into a new array
appendWord(arrs, sl, w) ==
    IF sl.len < sl.cap
    THEN [arrs |-> [arrs EXCEPT ![sl.arr][sl.off + sl.len + 1] = w],
          sl   |-> [sl EXCEPT !.len = @ + 1]]
    ELSE LET c   == growCap(sl.cap, sl.len + 1)
             old == WordsIn(arrs, sl)
             new == [i \in 1..c |-> IF i <= sl.len THEN old[i]
                                    ELSE IF i = sl.len + 1 THEN w ELSE <<>>]
         IN [arrs |-> Append(arrs, new),
             sl   |-> [arr |-> Len(arrs) + 1, off |-> 0, len |-> sl.len + 1, cap |-> c]]

\* sl[:len(sl)-1]: the last word is dropped, the start stays
slide_dropsLast(sl) == [sl EXCEPT !.len = @ - 1]

\* sl[1:]
slide(sl) == [sl EXCEPT !.off = @ + 1, !.len = @ - 1, !.cap = @ - 1]

\* A heap state is [h, seqs, arrs]: the map, the Sequences, the arrays their
\* Words point into.
HLen(st) == Cardinality(DOMAIN st.h)

\* the first index at which two word lists differ (0: none)
firstDiff(a, b) ==
    LET d == {k \in 1..Len(a) : a[k] # b[k]}
    IN IF d = {} THEN 0 ELSE CHOOSE k \in d : \A x \in d : k <= x

\* mutant: equal counts are left in heap order
Less_countOnly(st, i, j) == st.seqs[st.h[i]].Count > st.seqs[st.h[j]].Count

Less(st, i, j) ==
    LET a == st.seqs[st.h[i]]
        b == st.seqs[st.h[j]]
        aw == WordsIn(st.arrs, a.Words)
        bw == WordsIn(st.arrs, b.Words)
        k == firstDiff(aw, bw)
    IN IF a.Count # b.Count THEN a.Count > b.Count
       ELSE IF k # 0 THEN StrLess(aw[k], bw[k])
       ELSE FALSE

\* a Swap that leaves the index fields as they are
Swap_noIndex(st, i, j) ==
    [st EXCEPT !.h = [st.h EXCEPT ![i] = st.h[j], ![j] = st.h[i]]]

Swap(st, i, j) ==
    LET hh == [st.h EXCEPT ![i] = st.h[j], ![j] = st.h[i]]
        s1 == [st.seqs EXCEPT ![hh[i]].index = i]
        s2 == [s1 EXCEPT ![hh[j]].index = j]
    IN [st EXCEPT !.h = hh, !.seqs = s2]

\* a Push that stores the item in slot 0, whatever is there
Push_replacesRoot(st, x) ==
    [st EXCEPT !.seqs[x].index = 0, !.h = (0 :> x) @@ st.h]

Push(st, x) ==
    [st EXCEPT !.seqs[x].index = HLen(st), !.h = st.h @@ (HLen(st) :> x)]

\* the state left and the item removed
Pop(st) ==
    LET n == HLen(st)
        item == st.h[n - 1]
    IN [st   |-> [st EXCEPT !.h = [k \in DOMAIN st.h \ {n - 1} |-> st.h[k]],
                            !.seqs[item].index = -1],
        item |-> item]

\* an up that never moves the element
up_noSift(st, j) == st

\* container/heap
RECURSIVE up(_, _)
up(st, j) ==
    LET i == IF j = 0 THEN 0 ELSE (j - 1) \div 2
    IN IF i = j \/ ~Less(st, j, i) THEN st ELSE up(Swap(st, i, j), i)

RECURSIVE down(_, _, _)
down(st, i, n) ==
    LET j1 == 2 * i + 1 IN
    IF j1 >= n THEN [st |-> st, i |-> i]
    ELSE LET j2 == j1 + 1
             j == IF j2 < n /\ Less(st, j2, j1) THEN j2 ELSE j1
         IN IF ~Less(st, j, i) THEN [st |-> st, i |-> i]
            ELSE down(Swap(st, i, j), j, n)

heapPush(st, x) == LET s == Push(st, x) IN up(s, HLen(s) - 1)

\* mutant: the heap is not fixed after an increment
heapFix_skipped(st, i) == st

heapFix(st, i) ==
    LET d == down(st, i, HLen(st)) IN IF d.i > i THEN d.st ELSE up(d.st, i)

heapPop(st) ==
    LET n == HLen(st) - 1 IN Pop(down(Swap(st, 0, n), 0, n).st)

-----------------------------------------------------------------------------
(* Process *)

\* mutant: only both arguments being out of range is refused
invalidArgument_both(size, n) == size < 1 /\ n < 1

invalidArgument(size, n) == size < 1 \/ n < 1

\* mutant: the window is taken one word late
notYetFull_late(n, size) == n <= size

\* len(window) < seqSize
notYetFull(n, size) == n < size

\* mutant: one entry too many is popped
extracting_oneMore(n, top, hlen) == n <= top /\ hlen > 0

\* len(ret) < topN && h.Len() > 0
extracting(n, top, hlen) == n < top /\ hlen > 0

heapState == [h |-> h, seqs |-> seqs, arrs |-> arrays]

\* if seqSize < 1 || topN < 1: return nil, error
ProcessInvalid ==
    /\ pc = "Process"
    /\ invalidArgument(seqSize, topN)
    /\ result' = NoResult
    /\ perr' = ErrInvalid
    /\ pc' = "done"
    /\ UNCHANGED <<rdVars, extra, runVars, swVars, wr, seqSize, topN, arrays, window, stream,
                   seqs, cache, h, ret>>

\* the reader, the window, the cache and the heap are set up
ProcessStart ==
    /\ pc = "Process"
    /\ ~invalidArgument(seqSize, topN)
    /\ wr' = TRUE
    /\ LET m == makeWindow(seqSize + 1) IN
       /\ arrays' = m.arrs
       /\ window' = m.sl
    /\ cache' = <<>>
    /\ h' = <<>>
    /\ pc' = "ReadWord"
    /\ UNCHANGED <<rdVars, extra, runVars, swVars, seqSize, topN, stream, seqs, ret, result, perr>>

\* err == io.EOF: break out of the loop
ProcessEOF ==
    /\ pc = "returned"
    /\ err = ErrEOF
    /\ ret' = <<>>
    /\ pc' = "extract"
    /\ UNCHANGED <<rdVars, extra, runVars, swVars, wr, seqSize, topN, arrays, window, stream,
                   seqs, cache, h, result, perr>>

\* err != nil: return nil, err
ProcessError ==
    /\ pc = "returned"
    /\ err \notin {ErrEOF, ErrNil}
    /\ result' = NoResult
    /\ perr' = err
    /\ pc' = "done"
    /\ UNCHANGED <<rdVars, extra, runVars, swVars, wr, seqSize, topN, arrays, window, stream,
                   seqs, cache, h, ret>>

\* a skip that also empties the window (window = window[:0])
ProcessSkip_resetsWindow ==
    /\ pc = "returned"
    /\ err = ErrNil
    /\ isSpace(word) \/ Len(stripLower(word)) = 0
    /\ window' = [window EXCEPT !.len = 0]
    /\ pc' = "ReadWord"
    /\ UNCHANGED <<rdVars, extra, runVars, swVars, wr, seqSize, topN, arrays, stream, seqs,
                   cache, h, ret, result, perr>>

\* the word is white space, or nothing is left of it: continue
ProcessSkip ==
    /\ pc = "returned"
    /\ err = ErrNil
    /\ isSpace(word) \/ Len(stripLower(word)) = 0
    /\ pc' = "ReadWord"
    /\ UNCHANGED <<rdVars, extra, runVars, swVars, procVars>>

\* the word the loop appends to the window
thisWord == stripLower(word)
\* the window with the word appended
thisAppend == appendWord(arrays, window, thisWord)

\* the window isn't yet full: continue
ProcessFill ==
    /\ pc = "returned"
    /\ err = ErrNil
    /\ ~isSpace(word) /\ Len(thisWord) # 0
    /\ notYetFull(thisAppend.sl.len, seqSize)
    /\ arrays' = thisAppend.arrs
    /\ window' = thisAppend.sl
    /\ stream' = Append(stream, thisWord)
    /\ pc' = "ReadWord"
    /\ UNCHANGED <<rdVars, extra, runVars, swVars, wr, seqSize, topN, seqs, cache, h, ret, result, perr>>

\* the sequence is in the cache: count it and fix the heap
ProcessCount ==
    /\ pc = "returned"
    /\ err = ErrNil
    /\ ~isSpace(word) /\ Len(thisWord) # 0
    /\ ~notYetFull(thisAppend.sl.len, seqSize)
    /\ LET seq == thisAppend.sl
           key == keyOf(WordsIn(thisAppend.arrs, seq))
       IN /\ key \in DOMAIN cache
          /\ LET item == cache[key]
                 st == [h |-> h, arrs |-> thisAppend.arrs,
                        seqs |-> [seqs EXCEPT ![item].Count = @ + 1]]
                 fixed == heapFix(st, st.seqs[item].index)
             IN /\ h' = fixed.h
                /\ seqs' = fixed.seqs
          /\ window' = slide(seq)
    /\ arrays' = thisAppend.arrs
    /\ stream' = Append(stream, thisWord)
    /\ pc' = "ReadWord"
    /\ UNCHANGED <<rdVars, extra, runVars, swVars, wr, seqSize, topN, cache, ret, result, perr>>

\* the sequence is new: into the cache and onto the heap
ProcessNew ==
    /\ pc = "returned"
    /\ err = ErrNil
    /\ ~isSpace(word) /\ Len(thisWord) # 0
    /\ ~notYetFull(thisAppend.sl.len, seqSize)
    /\ LET seq == thisAppend.sl
           key == keyOf(WordsIn(thisAppend.arrs, seq))
       IN /\ key \notin DOMAIN cache
          /\ LET item == Len(seqs) + 1
                 st == [h |-> h, arrs |-> thisAppend.arrs,
                        seqs |-> Append(seqs, [Words |-> seq, Count |-> 1, index |-> 0])]
                 pushed == heapPush(st, item)
             IN /\ cache' = cache @@ (key :> item)
                /\ h' = pushed.h
                /\ seqs' = pushed.seqs
          /\ window' = slide(seq)
    /\ arrays' = thisAppend.arrs
    /\ stream' = Append(stream, thisWord)
    /\ pc' = "ReadWord"
    /\ UNCHANGED <<rdVars, extra, runVars, swVars, wr, seqSize, topN, ret, result, perr>>

\* for len(ret) < topN && h.Len() > 0: ret = append(ret, heap.Pop(h))
ProcessPop ==
    /\ pc = "extract"
    /\ extracting(Len(ret), topN, HLen(heapState))
    /\ LET p == heapPop(heapState) IN
       /\ h' = p.st.h
       /\ seqs' = p.st.seqs
       /\ ret' = Append(ret, p.item)
    /\ UNCHANGED <<rdVars, pc, extra, runVars, swVars, wr, seqSize, topN, arrays, window, stream,
                   cache, result, perr>>

\* return ret, nil
ProcessReturn ==
    /\ pc = "extract"
    /\ ~extracting(Len(ret), topN, HLen(heapState))
    /\ result' = [nil |-> FALSE,
                  items |-> [k \in 1..Len(ret) |->
                              [Words |-> WordsIn(arrays, seqs[ret[k]].Words),
                               Count |-> seqs[ret[k]].Count]]]
    /\ perr' = ErrNil
    /\ pc' = "done"
    /\ UNCHANGED <<rdVars, extra, runVars, swVars, wr, seqSize, topN, arrays, window, stream,
                   seqs, cache, h, ret>>

Process ==
    \/ ProcessInvalid \/ ProcessStart \/ ProcessEOF \/ ProcessError
    \/ ProcessSkip \/ ProcessFill \/ ProcessCount \/ ProcessNew
    \/ ProcessPop \/ ProcessReturn

MaxWords   == 5    \* most words of an input made of words and single spaces
MaxSeqSize == 3    \* largest seqSize
MaxTopN    == 3    \* largest topN
MaxRaw     == 3    \* longest input of the counter's alphabet

\* a b ab
Vocabulary == { <<97>>, <<98>>, <<97, 98>> }

\* the words with a space between each two
RECURSIVE Spaced(_)
Spaced(ws) ==
    IF ws = <<>> THEN <<>>
    ELSE IF Len(ws) = 1 THEN ws[1]
    ELSE ws[1] \o <<Space>> \o Spaced(Tail(ws))

\* NUL LF space ( B a b U+0301
RawAlphabet == {NUL, lineFeed, Space, 40, 66, 97, 98, 769}

\* the calls of Process: texts of words and spaces with every valid
\* configuration, texts of the counter's alphabet, texts from a failing
\* source, and the configurations around the valid ones
ProcessCalls ==
    [input : {Spaced(ws) : ws \in Strings(Vocabulary, MaxWords)},
     errAt : {-1}, sticky : {FALSE},
     seqSize : 1..MaxSeqSize, topN : 1..MaxTopN]
    \cup
    [input : Strings(RawAlphabet, MaxRaw),
     errAt : {-1}, sticky : {FALSE}, seqSize : {1, 2}, topN : {2}]
    \cup
    {s \in [input : Strings(ErrAlphabet, MaxErrLen), errAt : 0..MaxErrLen,
            sticky : BOOLEAN, seqSize : {1}, topN : {2}] : s.errAt <= Len(s.input)}
    \cup
    [input : Strings(ErrAlphabet, 1), errAt : {-1, 0}, sticky : {FALSE},
     seqSize : -1..1, topN : -1..1]

Init ==
    /\ \E c \in ProcessCalls :
          /\ InitReader(c)
          /\ seqSize = c.seqSize
          /\ topN = c.topN
    /\ pc = "Process"
    /\ wr = FALSE
    /\ InitProcessIdle
    /\ InitRunIdle
    /\ InitSwitchIdle

Next == Process \/ ReadWord

Spec == Init /\ [][Next]_vars

-----------------------------------------------------------------------------
(* run: the list of the things to read from *)

MaxArgs == 3

\* "-" and two file names
FileNames == {"-", "a.txt", "b.txt"}

\* os.Stdin and an *os.File, as members of readers
Stdin    == [kind |-> "stdin", name |-> ""]
File(fn) == [kind |-> "file", name |-> fn]

\* if fn == "-" { readers = append(readers, os.Stdin) }
dashReader(rs, fn) == IF fn = "-" THEN Append(rs, Stdin) ELSE rs

\* os.Open(fn)
osOpen(fn) == [f |-> File(fn), err |-> IF fn \in exists THEN ErrNil ELSE ErrNotExist]

\* the argument the loop is at
thisArg == args[argi + 1]

\* one iteration of the loop, the file opens
RunArg ==
    /\ pc = "run"
    /\ argi < Len(args)
    /\ osOpen(thisArg).err = ErrNil
    /\ opened' = Append(opened, thisArg)
    /\ readers' = Append(dashReader(readers, thisArg), osOpen(thisArg).f)
    /\ argi' = argi + 1
    /\ UNCHANGED <<rdVars, pc, extra, procVars, swVars, args, exists, rerr>>

\* one iteration of the loop, os.Open fails: return err
RunOpenFails ==
    /\ pc = "run"
    /\ argi < Len(args)
    /\ osOpen(thisArg).err # ErrNil
    /\ opened' = Append(opened, thisArg)
    /\ readers' = dashReader(readers, thisArg)
    /\ rerr' = osOpen(thisArg).err
    /\ pc' = "runFailed"
    /\ UNCHANGED <<rdVars, extra, procVars, swVars, args, exists, argi>>

\* after the loop: stdin when there is no reader, then io.MultiReader
RunReaders ==
    /\ pc = "run"
    /\ argi = Len(args)
    /\ readers' = IF Len(readers) = 0 THEN <<Stdin>> ELSE readers
    /\ pc' = "MultiReader"
    /\ UNCHANGED <<rdVars, extra, procVars, swVars, args, exists, argi, opened, rerr>>

InitRun ==
    /\ args \in Strings(FileNames, MaxArgs)
    /\ exists \in SUBSET FileNames
    /\ argi = 0
    /\ readers = <<>>
    /\ opened = <<>>
    /\ rerr = ErrNil
    /\ pc = "run"
    /\ InitReader([input |-> <<>>, errAt |-> -1, sticky |-> FALSE])
    /\ wr = FALSE
    /\ seqSize = 0
    /\ topN = 0
    /\ InitProcessIdle
    /\ InitSwitchIdle

NextRun == RunArg \/ RunOpenFails \/ RunReaders

SpecRun == InitRun /\ [][NextRun]_vars

-----------------------------------------------------------------------------
(* The switch of ReadWord on its own, given every lookback, code point and *)
(* lookahead                                                               *)

\* one code point of every class, the quotes, a code point of no class
\* (space) and utf8.RuneError (no lookback, no lookahead)
ClassReps ==
    {RuneError, Space, carriageReturn, lineFeed, 11, zwj, 769, 173, 10084,
     128104, 128077, 127995, 97, 1488, 58, 44, 46, singleQuote, doubleQuote,
     49, 12450, 95, 127482}

\* lastRune() returns no Extend and no Format code point
Lookbacks == {x \in ClassReps : ~(extend(x) \/ format(x))}

\* lastRuneLiteral is lastRune, or an Extend or Format code point after it
Literals(last) == {last} \cup {x \in ClassReps : extend(x) \/ format(x)}

InitSwitch ==
    /\ \E second \in Lookbacks, last \in Lookbacks,
          r \in ClassReps \ {RuneError}, next \in ClassReps :
          \E lit \in Literals(last) :
             /\ last = RuneError => second = RuneError
             /\ query = [second |-> second, last |-> last, lit |-> lit,
                         r |-> r, next |-> next]
    /\ decision = "none"
    /\ pc = "switch"
    /\ InitReader([input |-> <<>>, errAt |-> -1, sticky |-> FALSE])
    /\ wr = FALSE
    /\ seqSize = 0
    /\ topN = 0
    /\ InitProcessIdle
    /\ InitRunIdle

\* the case taken for the query
thisCase == switchCase(query.last, query.lit, query.second, query.r, query.next)

\* a case that writes r to Buf
SwitchKeep ==
    /\ pc = "switch"
    /\ thisCase \notin emitCases
    /\ decision' = "keep"
    /\ pc' = "decided"
    /\ UNCHANGED <<rdVars, extra, procVars, runVars, query>>

\* a case that returns wr.emitWordPushRune(r)
SwitchEmit ==
    /\ pc = "switch"
    /\ thisCase \in emitCases
    /\ decision' = "boundary"
    /\ pc' = "decided"
    /\ UNCHANGED <<rdVars, extra, procVars, runVars, query>>

NextSwitch == SwitchKeep \/ SwitchEmit

SpecSwitch == InitSwitch /\ [][NextSwitch]_vars

-----------------------------------------------------------------------------
(* Properties of the word reader *)

RECURSIVE Concat(_)
Concat(ws) == IF ws = <<>> THEN <<>> ELSE Head(ws) \o Concat(Tail(ws))

\* the input positions after which a returned word ended
Cuts == {Len(Concat(SubSeq(emitted, 1, k))) : k \in 1..Len(emitted)}

\* the whole input was read without error and ReadWord has signalled its end
ReadToEnd == pc = "returned" /\ err = ErrEOF /\ ~srcFailed

\* C1: as long as no read fails, the words returned so far followed by the
\* buffer are exactly the code points consumed, in order, and once the end
\* of input is signalled the words returned concatenate to the whole input.
C1_TokenReconstruction ==
    ~srcFailed =>
        /\ Concat(emitted) \o Buf = SubSeq(input, 1, pos)
        /\ ReadToEnd => Concat(emitted) = input

\* a word kept together by lookahead (a ' a) was returned, after another word
C1_Witness ==
    /\ ReadToEnd
    /\ \E k \in 2..Len(emitted) : emitted[k] = <<97, singleQuote, 97>>

\* C9: no word ends between a CR and the LF that directly follows it.
C9_CRLFNeverSplit ==
    \A p \in Cuts :
        ~(p >= 1 /\ p < Len(input)
          /\ input[p] = carriageReturn /\ input[p + 1] = lineFeed)

\* CR LF was returned as one word after a word and another CR
C9_Witness ==
    emitted = << <<97>>, <<carriageReturn>>, <<carriageReturn, lineFeed>> >>

IsRI(p) == p \in 1..Len(input) /\ ri(input[p])

\* the number of regional indicators in a word
RECURSIVE CountRI(_)
CountRI(w) == IF w = <<>> THEN 0
              ELSE (IF ri(Head(w)) THEN 1 ELSE 0) + CountRI(Tail(w))

NoTripleRI == \A k \in 1..Len(emitted) : CountRI(emitted[k]) <= 2

\* the first position of the run of consecutive regional indicators holding p
RunStart(p) == CHOOSE s \in 1..p : (\A q \in s..p : IsRI(q)) /\ ~IsRI(s - 1)

\* C10 as stated: every maximal run of consecutive regional indicators starts
\* a word and is cut after its 2nd, 4th, ... code point and nowhere else, and
\* no word holds three regional indicators.
C10_ConsecutiveRunsPaired ==
    /\ NoTripleRI
    /\ ReadToEnd =>
          \A p \in 1..Len(input) : IsRI(p) =>
              LET s == RunStart(p) IN
              /\ (p = s /\ p > 1) => (p - 1) \in Cuts
              /\ IsRI(p + 1) => ((p \in Cuts) <=> ((p - s + 1) % 2 = 0))

\* the regional indicator before p with only Extend and Format code points
\* between the two (0: none)
PrevRI(p) ==
    LET c == {q \in 1..(p - 1) :
                 IsRI(q) /\ \A x \in (q + 1)..(p - 1) :
                               extend(input[x]) \/ format(input[x])}
    IN IF c = {} THEN 0 ELSE CHOOSE q \in c : \A x \in c : x <= q

\* the number of p in its run of regional indicators, Extend and Format
\* code points inside the run not counted
RECURSIVE RankRI(_)
RankRI(p) == IF PrevRI(p) = 0 THEN 1 ELSE RankRI(PrevRI(p)) + 1

\* C10, amended: in a run of regional indicators whose members are separated
\* by nothing but Extend and Format code points, every odd-numbered indicator
\* starts a word and every even-numbered one is in the word of the indicator
\* before it; no word holds three regional indicators.
C10_RunsPairedIgnoringExtend ==
    /\ NoTripleRI
    /\ ReadToEnd =>
          \A p \in 1..Len(input) : IsRI(p) =>
              IF RankRI(p) % 2 = 1
              THEN p > 1 => (p - 1) \in Cuts
              ELSE \A q \in PrevRI(p)..(p - 1) : q \notin Cuts

\* a run of three indicators was returned as a pair and a single one, and a
\* pair with an Extend code point inside it was returned as one word
C10_Witness ==
    /\ ReadToEnd
    /\ \E k \in 2..Len(emitted) :
          emitted[k - 1] = <<127482, 127482>> /\ emitted[k] = <<127482>>
    /\ \E k \in 1..Len(emitted) : emitted[k] = <<127482, 769, 127482>>

-----------------------------------------------------------------------------
(* Properties of Process *)

\* the K-grams of the normalized words, by position
LastGram  == Len(stream) - seqSize + 1
GramAt(i) == SubSeq(stream, i, i + seqSize - 1)
AllGrams  == {GramAt(i) : i \in 1..LastGram}
Occ(g)    == Cardinality({i \in 1..LastGram : GramAt(i) = g})
Distinct  == Cardinality(AllGrams)

Min(a, b) == IF a < b THEN a ELSE b
Max(a, b) == IF a > b THEN a ELSE b

\* word list a is lexicographically before word list b
RECURSIVE ListLess(_, _)
ListLess(a, b) ==
    IF a = <<>> \/ b = <<>> THEN a = <<>> /\ b # <<>>
    ELSE IF Head(a) = Head(b) THEN ListLess(Tail(a), Tail(b))
    ELSE StrLess(Head(a), Head(b))

\* entry a ranks before entry b
RankBefore(a, b) ==
    \/ a.Count > b.Count
    \/ a.Count = b.Count /\ ListLess(a.Words, b.Words)

Returned == pc = "done" /\ perr = ErrNil

\* C2: in the returned slice every entry ranks strictly before the next:
\* a larger count, or the same count and a lexicographically smaller list.
C2_RankOrder ==
    Returned =>
        \A k \in 1..(Len(result.items) - 1) :
            RankBefore(result.items[k], result.items[k + 1])

\* three entries were returned, the last two with the same count
C2_Witness ==
    /\ Returned
    /\ Len(result.items) = 3
    /\ result.items[1].Count > result.items[2].Count
    /\ result.items[2].Count = result.items[3].Count

\* all distinct K-grams with their counts, best rank first
RECURSIVE Ranking(_)
Ranking(G) ==
    IF G = {} THEN <<>>
    ELSE LET e(g) == [Words |-> g, Count |-> Occ(g)]
             top  == CHOOSE g \in G : \A x \in G \ {g} : RankBefore(e(g), e(x))
         IN <<e(top)>> \o Ranking(G \ {top})

\* C3: the returned entries are the first min(topN, D) of all D distinct
\* K-grams sorted by count descending, then word list ascending.
C3_TopOfRanking ==
    Returned =>
        result.items = SubSeq(Ranking(AllGrams), 1, Min(topN, Distinct))

\* K-grams were left out of a result of two entries or more, and the counts
\* were not all equal
C3_Witness ==
    /\ Returned
    /\ Distinct > topN /\ topN >= 2
    /\ \E g \in AllGrams : Occ(g) >= 2
    /\ \E g \in AllGrams : Occ(g) = 1

RECURSIVE SumCounts(_)
SumCounts(keys) ==
    IF keys = {} THEN 0
    ELSE LET k == CHOOSE x \in keys : TRUE
         IN seqs[cache[k]].Count + SumCounts(keys \ {k})

\* C4: when the input has been processed, the counts of the Sequences in
\* the index add up to max(V - K + 1, 0).
C4_CountConservation ==
    pc = "extract" => SumCounts(DOMAIN cache) = Max(Len(stream) - seqSize + 1, 0)

\* the index holds several Sequences, one of them counted more than once
C4_Witness ==
    /\ pc = "extract"
    /\ Cardinality(DOMAIN cache) >= 2
    /\ \E k \in DOMAIN cache : seqs[cache[k]].Count >= 2
    /\ seqSize >= 2

\* C5: after every word of the loop and when the input has been processed,
\* every Sequence in the index has K words and counts the positions of the
\* word stream so far at which its words stand, and every window of the
\* stream has exactly one Sequence.
C5_CountsAreOccurrences ==
    pc \in {"ReadWord", "returned", "extract"} =>
        /\ \A k \in DOMAIN cache :
              LET s == seqs[cache[k]]
                  w == WordsIn(arrays, s.Words)
              IN Len(w) = seqSize /\ s.Count = Occ(w)
        /\ \A i \in 1..LastGram :
              Cardinality({k \in DOMAIN cache :
                              WordsIn(arrays, seqs[cache[k]].Words) = GramAt(i)}) = 1

\* three-word Sequences, one met twice and another once
C5_Witness ==
    /\ pc = "extract"
    /\ seqSize = 3
    /\ \E k \in DOMAIN cache : seqs[cache[k]].Count = 2
    /\ \E k \in DOMAIN cache : seqs[cache[k]].Count = 1

\* C6: once a read of the source has failed, ReadWord returns the error with
\* an empty word and Process returns it with a nil result, never a list.
C6_ReadFailurePropagates ==
    srcFailed =>
        /\ pc = "returned" => (word = <<>> /\ err = ErrRead)
        /\ pc # "extract"
        /\ pc = "done" => (perr = ErrRead /\ result.nil)

\* C7: with seqSize < 1 or topN < 1 Process returns nil and the error, having
\* read nothing and set up nothing; with both at least 1 it never returns
\* that error.
C7_InvalidConfiguration ==
    IF seqSize < 1 \/ topN < 1
    THEN /\ pc \in {"Process", "done"}
         /\ reads = 0 /\ pos = 0 /\ ~wr
         /\ window = NoWindow /\ arrays = <<>> /\ seqs = <<>>
         /\ cache = <<>> /\ h = <<>>
         /\ pc = "done" => (result.nil /\ perr = ErrInvalid)
    ELSE perr # ErrInvalid

\* Process has returned the error for a non-empty input, seqSize being valid
C7_Witness ==
    /\ pc = "done" /\ perr = ErrInvalid
    /\ seqSize >= 1 /\ topN < 1
    /\ Len(input) > 0

\* C8: with valid arguments and an input read without error Process returns
\* min(topN, D) entries and a nil error.
C8_ResultSize ==
    (pc = "done" /\ seqSize >= 1 /\ topN >= 1 /\ ~srcFailed) =>
        /\ perr = ErrNil
        /\ ~result.nil
        /\ Len(result.items) = Min(topN, Distinct)

\* a result cut to topN entries
C8_Witness ==
    /\ Returned
    /\ Distinct > topN
    /\ Len(result.items) = topN

-----------------------------------------------------------------------------
(* End of input *)

\* the next read of the source reports end-of-stream
AtEnd == pos >= Len(input) /\ ~SourceFails(pos, errFired)

\* C11: at end-of-stream a call of ReadWord with a non-empty buffer returns
\* the buffer with a nil error and leaves it empty, a call with an empty
\* buffer returns the empty word and io.EOF, and once io.EOF has been
\* returned every later call returns the empty word and io.EOF and no word
\* is returned any more.
C11_LastWordThenEOF ==
    [][ /\ (pc = "ReadWord" /\ AtEnd /\ Buf # <<>>) =>
              /\ pc' = "returned" /\ word' = Buf /\ err' = ErrNil
              /\ emitted' = Append(emitted, Buf) /\ Buf' = <<>>
        /\ (pc = "ReadWord" /\ AtEnd /\ Buf = <<>>) =>
              /\ pc' = "returned" /\ word' = <<>> /\ err' = ErrEOF
              /\ emitted' = emitted /\ Buf' = <<>>
        /\ err = ErrEOF =>
              /\ err' = ErrEOF /\ word' = <<>> /\ emitted' = emitted
      ]_vars

\* io.EOF was returned a second time, after the last of several words
C11_Witness ==
    /\ pc = "returned" /\ err = ErrEOF /\ word = <<>>
    /\ extra >= 1
    /\ ~srcFailed
    /\ Len(emitted) >= 2

-----------------------------------------------------------------------------
(* Lookback *)

\* the code points of the buffer that are none of Extend, Format or ZWJ
Retained(buf) == SelectSeq(buf, LAMBDA r : ~(extend(r) \/ format(r) \/ r = zwj))

\* C12: lastRune and secondToLastRune of the buffer are its last and its
\* last but one code point that is none of Extend, Format or ZWJ (RuneError
\* where there is none), so a kept Extend, Format or ZWJ changes neither.
C12_LookbackSkipsExtendFormatZWJ ==
    LET lb   == lastRune(Buf)
        kept == Retained(Buf)
        n    == Len(kept)
    IN  /\ lb[1] = (IF n >= 1 THEN kept[n] ELSE RuneError)
        /\ lb[3] = (IF n >= 2 THEN kept[n - 1] ELSE RuneError)

-----------------------------------------------------------------------------
(* Normalization *)

\* C13: no normalized word appended to the window holds the code point NUL,
\* which joins the words of a window into its key.
C13_NoSeparatorInWords ==
    \A i \in 1..Len(stream) :
        \A j \in 1..Len(stream[i]) : stream[i][j] # NUL

\* C14: a word the normalization has produced is not one of the whitespace
\* strings, and stripping punctuation from it and lower-casing it gives the
\* same word: the normalization keeps it and does not alter it.
C14_NormalizationIdempotent ==
    \A i \in 1..Len(stream) :
        /\ ~isSpace(stream[i])
        /\ stripLower(stream[i]) = stream[i]
        /\ Len(stripLower(stream[i])) # 0

\* a capital was lower-cased, and a word starting with a space was produced
C14_Witness ==
    /\ \E i \in 1..Len(input) : input[i] = 66
    /\ \E i \in 1..Len(stream) : stream[i] = <<98>>
    /\ \E i \in 1..Len(stream) : stream[i] = <<Space, 769>>

-----------------------------------------------------------------------------
(* Discarded tokens and the window *)

\* the normalized words of the tokens that the normalization does not discard
RECURSIVE Survivors(_)
Survivors(toks) ==
    IF toks = <<>> THEN <<>>
    ELSE LET w == stripLower(Head(toks))
         IN IF isSpace(Head(toks)) \/ Len(w) = 0 THEN Survivors(Tail(toks))
            ELSE <<w>> \o Survivors(Tail(toks))

\* the last n words of the stream
LastWords(n) == SubSeq(stream, Len(stream) - n + 1, Len(stream))

\* the word lists registered in the cache
Registered == {WordsIn(arrays, seqs[cache[k]].Words) : k \in DOMAIN cache}

\* C15: between two tokens the words appended so far are the surviving
\* normalized tokens in order, the window holds the last seqSize - 1 of them
\* (all of them while there are fewer), whatever discarded tokens lie between
\* them, and the registered word lists are exactly the runs of seqSize
\* consecutive surviving words; the result is the top of their ranking, so it
\* is the same for inputs with the same surviving words.
C15_DiscardedTokensLeaveWindow ==
    (wr /\ pc \in {"ReadWord", "extract", "done"}) =>
        /\ stream = Survivors(emitted)
        /\ pc = "ReadWord" =>
              WordsIn(arrays, window) = LastWords(Min(seqSize - 1, Len(stream)))
        /\ Registered = AllGrams
        /\ Returned =>
              result.items = SubSeq(Ranking(AllGrams), 1, Min(topN, Distinct))

\* "a(b" with seqSize 2: the punctuation token lies between the two words of
\* the only sequence
C15_Witness ==
    /\ Returned
    /\ seqSize = 2
    /\ emitted = << <<97>>, <<40>>, <<98>> >>
    /\ Len(result.items) = 1
    /\ result.items[1].Words = << <<97>>, <<98>> >>
    /\ result.items[1].Count = 1

-----------------------------------------------------------------------------
(* Properties of run *)

\* C16: run passes no '-' argument to os.Open and does not fail at one, and
\* the readers it concatenates are os.Stdin at the place of every '-'
\* argument and the opened file at the place of every other argument.
C16_DashReadsStdinOnly ==
    /\ \A i \in 1..Len(opened) : opened[i] # "-"
    /\ pc = "runFailed" => thisArg # "-"
    /\ (pc = "MultiReader" /\ args # <<>>) =>
          readers = [i \in 1..Len(args) |->
                        IF args[i] = "-" THEN Stdin ELSE File(args[i])]

-----------------------------------------------------------------------------
(* The heap and the cache *)

\* the Sequences the heap holds
InHeap == {h[k] : k \in DOMAIN h}

\* C17: the keys of the heap are 0..Len()-1, every Sequence in the heap is
\* in the slot its index names, and a Sequence no longer in the heap (popped)
\* has index -1.
C17_HeapIndexSync ==
    /\ DOMAIN h = 0..(Cardinality(DOMAIN h) - 1)
    /\ \A k \in DOMAIN h : h[k] \in 1..Len(seqs) /\ seqs[h[k]].index = k
    /\ \A i \in 1..Len(seqs) :
          IF i \in InHeap
          THEN seqs[i].index \in DOMAIN h /\ h[seqs[i].index] = i
          ELSE seqs[i].index = -1
    /\ \A i \in 1..Len(ret) : ret[i] \notin InHeap /\ seqs[ret[i]].index = -1

\* pushes, a Fix that moved the incremented Sequence to the root, and a Pop
\* have happened, and Sequences are left in the heap
C17_Witness ==
    /\ pc = "extract"
    /\ Len(ret) >= 1
    /\ Cardinality(DOMAIN h) >= 2
    /\ seqs[ret[1]].Count >= 2
    /\ ret[1] # 1

\* the parent slot of slot k
Parent(k) == (k - 1) \div 2

\* C18: between the register steps and the pops no Sequence of the heap
\* ranks before the one in its parent slot, and the Sequence in slot 0 ranks
\* before every other one.
C18_MaxHeap ==
    /\ \A k \in DOMAIN h \ {0} : ~Less(heapState, k, Parent(k))
    /\ \A k \in DOMAIN h \ {0} : Less(heapState, 0, k)

\* after three pushes and an increment that moved its Sequence to the root:
\* the root is not the first Sequence made, and a Sequence made later than
\* another one stands in its parent slot
C18_Witness ==
    /\ pc = "ReadWord"
    /\ Cardinality(DOMAIN h) >= 3
    /\ seqs[h[0]].Count >= 2
    /\ h[0] # 1
    /\ \E k \in DOMAIN h \ {0} : h[Parent(k)] > h[k]

\* the Sequences the cache holds
InCache == {cache[k] : k \in DOMAIN cache}

\* C19: until the extraction starts the cache and the heap hold the same
\* Sequences, all that were made, each under one key and in one slot and
\* with a Count of 1 or more; a step before the extraction removes none from
\* the cache or the heap, and no step lowers a Count.
C19_CacheAndHeapAgree ==
    /\ [](pc \in {"Process", "ReadWord", "returned"} =>
            /\ InCache = InHeap
            /\ InHeap = 1..Len(seqs)
            /\ Cardinality(DOMAIN cache) = Cardinality(InCache)
            /\ Cardinality(DOMAIN h) = Cardinality(InHeap)
            /\ \A i \in 1..Len(seqs) : seqs[i].Count >= 1)
    /\ [][ /\ pc \in {"Process", "ReadWord", "returned"} =>
                /\ InHeap \subseteq InHeap'
                /\ DOMAIN cache \subseteq DOMAIN cache'
                /\ \A k \in DOMAIN cache : cache'[k] = cache[k]
           /\ Len(seqs') >= Len(seqs)
           /\ \A i \in 1..Len(seqs) : seqs'[i].Count >= seqs[i].Count
         ]_vars

\* three Sequences were registered, one of them three times
C19_Witness ==
    /\ pc = "ReadWord"
    /\ Cardinality(DOMAIN cache) = 3
    /\ \E i \in InHeap : seqs[i].Count = 3

-----------------------------------------------------------------------------
(* The rules of the segmenter, by class *)

IsNewlineCRLF(x)  == x \in tableNewline \cup {carriageReturn, lineFeed}
IsAHLetter(x)     == x \in tableALetter \cup tableHebrewLetter
IsMidNumLetQ(x)   == x \in tableMidNumLet \cup {singleQuote}
IsMidLetterQ(x)   == x \in tableMidLetter \/ IsMidNumLetQ(x)
IsMidNumQ(x)      == x \in tableMidNum \/ IsMidNumLetQ(x)
IsWordLike(x)     == IsAHLetter(x) \/ x \in tableNumeric \cup tableKatakana

\* the number of the first of the rules 1 to 18 that matches
FirstRule(x) ==
    LET second == x.second
        last   == x.last
        lit    == x.lit
        r      == x.r
        next   == x.next
        match(n) ==
            CASE n = 1  -> lit = carriageReturn /\ r = lineFeed
              [] n = 2  -> IsNewlineCRLF(last) \/ IsNewlineCRLF(r)
              [] n = 3  -> last = zwj /\ r \in tableGlueAfterZWJ \cup tableEBaseGAZ
              [] n = 4  -> r \in tableExtend \cup tableFormat \cup {zwj}
              [] n = 5  -> IsAHLetter(last) /\ IsAHLetter(r)
              [] n = 6  -> IsAHLetter(last) /\ IsMidLetterQ(r) /\ IsAHLetter(next)
              [] n = 7  -> IsAHLetter(second) /\ IsMidLetterQ(last) /\ IsAHLetter(r)
              [] n = 8  -> last \in tableHebrewLetter /\ r = singleQuote
              [] n = 9  -> /\ last \in tableHebrewLetter /\ r = doubleQuote
                           /\ next \in tableHebrewLetter
              [] n = 10 -> /\ second \in tableHebrewLetter /\ last = doubleQuote
                           /\ r \in tableHebrewLetter
              [] n = 11 -> last \in tableNumeric /\ r \in tableNumeric
              [] n = 12 -> \/ IsAHLetter(last) /\ r \in tableNumeric
                           \/ last \in tableNumeric /\ IsAHLetter(r)
              [] n = 13 -> \/ /\ second \in tableNumeric /\ IsMidNumQ(last)
                              /\ r \in tableNumeric
                           \/ /\ last \in tableNumeric /\ IsMidNumQ(r)
                              /\ next \in tableNumeric
              [] n = 14 -> last \in tableKatakana /\ r \in tableKatakana
              [] n = 15 -> \/ /\ IsWordLike(last) \/ last \in tableExtendNumLet
                              /\ r \in tableExtendNumLet
                           \/ last \in tableExtendNumLet /\ IsWordLike(r)
              [] n = 16 -> /\ last \in tableEBase \cup tableEBaseGAZ
                           /\ r \in tableEModifier
              [] n = 17 -> /\ r \in tableRegionalIndicator
                           /\ last \in tableRegionalIndicator
                           /\ second \notin tableRegionalIndicator
              [] OTHER  -> TRUE
    IN CHOOSE n \in 1..18 : match(n) /\ \A m \in 1..(n - 1) : ~match(m)

\* rule 2 and the default rule are the boundaries
RuleDecision(x) == IF FirstRule(x) \in {2, 18} THEN "boundary" ELSE "keep"

\* C20: for every lookback, code point and lookahead the switch takes a case
\* that writes r to the buffer exactly when the first matching of the rules
\* 1 to 18 is a keep rule, and a case that emits exactly when it is rule 2
\* or the default rule.
C20_SwitchFollowsRules ==
    pc = "decided" => decision = RuleDecision(query)

\* rule 2 won over rule 4: an Extend code point after LF is a boundary,
\* here with a Hebrew letter as the lookahead and a letter before the LF
C20_Witness ==
    /\ pc = "decided"
    /\ query.last = lineFeed /\ query.lit = lineFeed /\ query.second = 97
    /\ query.r = 769
    /\ query.next = 1488
    /\ FirstRule(query) = 2
    /\ decision = "boundary"

-----------------------------------------------------------------------------
(* Tokens *)

\* C21: every word ReadWord has returned with a nil error holds at least one
\* code point: a boundary met with an empty buffer returns nothing, and the
\* last word is returned only from a non-empty buffer.
C21_WordsNonEmpty ==
    /\ \A i \in 1..Len(emitted) : Len(emitted[i]) >= 1
    /\ (pc = "returned" /\ err = ErrNil) => Len(word) >= 1

\* " a": the boundary before the space met an empty buffer, the one before
\* the letter returned the space, and the letter was returned at the end
C21_Witness ==
    /\ input = <<Space, 97>>
    /\ emitted = << <<Space>>, <<97>> >>
    /\ pc = "returned" /\ err = ErrNil /\ word = <<97>>
    /\ Buf = <<>>

\* a word that holds Newline, CR or LF is that code point alone, or CR LF
AloneOrCRLF(t) ==
    (\E j \in 1..Len(t) : IsNewlineCRLF(t[j])) =>
        (Len(t) = 1 \/ t = <<carriageReturn, lineFeed>>)

\* C22: every returned word that holds a Newline, CR or LF code point is
\* that single code point or the pair CR LF, and so is the buffer: nothing,
\* not even Extend, Format or ZWJ, is kept before or after one.
C22_LineBreaksAlone ==
    /\ \A i \in 1..Len(emitted) : AloneOrCRLF(emitted[i])
    /\ AloneOrCRLF(Buf)

\* ZWJ, CR LF, Extend: boundaries before the CR and after the LF
C22_Witness ==
    /\ input = <<zwj, carriageReturn, lineFeed, 769>>
    /\ emitted = << <<zwj>>, <<carriageReturn, lineFeed>>, <<769>> >>

\* C23: when ReadWord keeps r under a case that looks at nextRune, the loop
\* goes on, the next ReadRune returns the code point that was peeked, and
\* the switch keeps that code point as well; so the last code point of every
\* returned word is one the switch keeps whatever follows it.
C23_LookaheadIsKept ==
    /\ [][ (/\ pc = "ReadWord"
            /\ thisRead.err = ErrNil
            /\ caseFor(Buf, thisRead.r, thisPeek.r) \in lookaheadCases) =>
              /\ pc' = "ReadWord"
              /\ Buf' = Append(Buf, thisRead.r)
              /\ ReadRune(pos', errFired').err = ErrNil
              /\ ReadRune(pos', errFired').r = thisPeek.r
              /\ caseFor(Buf', thisPeek.r,
                         peekRune(ReadRune(pos', errFired').pos,
                                  ReadRune(pos', errFired').fired).r)
                     \notin emitCases
         ]_vars
    /\ [](\A i \in 1..Len(emitted) :
             LET t == emitted[i]
                 n == Len(t)
             IN n >= 2 =>
                  caseFor(SubSeq(t, 1, n - 1), t[n], RuneError) \notin emitCases)

\* alef " alef ,: the quote was kept because a Hebrew letter followed it,
\* that letter was kept after it, and the word ended before the comma
C23_Witness ==
    /\ input = <<1488, doubleQuote, 1488, 44>>
    /\ emitted = << <<1488, doubleQuote, 1488>> >>
    /\ Buf = <<44>>

-----------------------------------------------------------------------------
(* The Words of a Sequence and the window *)

\* C24: no step changes the Words slice of a Sequence or a word in an array
\* element it covers, although later appends write into the same array; so
\* the words of every cached Sequence still give the key it was stored
\* under when it was made.
C24_WordsNeverOverwritten ==
    /\ [][ \A i \in 1..Len(seqs) :
              /\ seqs'[i].Words = seqs[i].Words
              /\ WordsIn(arrays', seqs[i].Words) = WordsIn(arrays, seqs[i].Words)
         ]_vars
    /\ [](\A k \in DOMAIN cache :
             /\ seqs[cache[k]].Words.len = seqSize
             /\ keyOf(WordsIn(arrays, seqs[cache[k]].Words)) = k)

\* at extraction, with sequences of two words: two Sequences cover the same
\* array element, a Sequence lies in the array of the window, and the window
\* has been moved to a new array since the first Sequence was made
C24_Witness ==
    /\ pc = "extract"
    /\ seqSize = 2
    /\ Len(arrays) >= 2
    /\ \E i, j \in 1..Len(seqs) :
          /\ seqs[i].Words.arr = seqs[j].Words.arr
          /\ seqs[j].Words.off = seqs[i].Words.off + 1
    /\ \E i \in 1..Len(seqs) : seqs[i].Words.arr = window.arr
    /\ \E i \in 1..Len(seqs) : seqs[i].Words.arr # window.arr

====
